---------------------------- MODULE Spec2Model ----------------------------
(***************************************************************************)
(* bun-sfe-autoupdater: the Release Resolver (class BunUpdater) and the    *)
(* Update Executor (updater.ts), modelled as state machines.               *)
(*                                                                         *)
(* Three specifications share the definitions below:                       *)
(*   SpecHasUpdates  BunUpdater.hasUpdates() applied to every release the  *)
(*                   hosting service can answer with;                      *)
(*   Spec            checkForUpdates() calls interleaving on one instance, *)
(*                   the Executor they spawn, and the host process;        *)
(*   ExecSpec        one run of the Executor on an arbitrary command line. *)
(***************************************************************************)
EXTENDS Integers, Sequences, FiniteSets, TLC

(***************************************************************************)
(* Bounds of the model.                                                    *)
(***************************************************************************)
\* major + minor + patch of a version is at most MaxVer
MaxVer == 1
\* a release-metadata document lists at most MaxArtifacts artifacts
MaxArtifacts == 2
\* checkForUpdates() is invoked at most NumCalls times on the instance
NumCalls == 2

(***************************************************************************)
(* Semantic versions.  A version string is represented by what semver's    *)
(* parser makes of it: an invalid string (valid = FALSE), or major, minor, *)
(* patch and the list of (numeric) prerelease identifiers.                 *)
(***************************************************************************)
PreReleases == {<<>>, <<0>>, <<1>>, <<0, 0>>}

SemVers ==
    { v \in [valid : {TRUE}, major : 0..MaxVer, minor : 0..MaxVer,
             patch : 0..MaxVer, prerelease : PreReleases] :
        v.major + v.minor + v.patch <= MaxVer }

InvalidVersion ==
    [valid |-> FALSE, major |-> 0, minor |-> 0, patch |-> 0, prerelease |-> <<>>]

VersionStrings == SemVers \cup {InvalidVersion}

\* semver.valid(v): non-null iff v parses
SemverValid(v) == v.valid

\* compareIdentifiers on numeric identifiers
CompareIdentifiers(a, b) == IF a = b THEN 0 ELSE IF a < b THEN -1 ELSE 1

\* SemVer.compareMain: major, then minor, then patch
CompareMain(a, b) ==
    IF a.major # b.major THEN CompareIdentifiers(a.major, b.major)
    ELSE IF a.minor # b.minor THEN CompareIdentifiers(a.minor, b.minor)
    ELSE CompareIdentifiers(a.patch, b.patch)

\* SemVer.comparePre: a version with a prerelease is lower than the same
\* version without one; otherwise identifier by identifier, the shorter list
\* being lower when it is a prefix of the other
RECURSIVE ComparePreFrom(_, _, _)
ComparePreFrom(p, q, i) ==
    IF i > Len(p) /\ i > Len(q) THEN 0
    ELSE IF i > Len(q) THEN 1
    ELSE IF i > Len(p) THEN -1
    ELSE IF p[i] = q[i] THEN ComparePreFrom(p, q, i + 1)
    ELSE CompareIdentifiers(p[i], q[i])

ComparePre(a, b) ==
    IF Len(a.prerelease) > 0 /\ Len(b.prerelease) = 0 THEN -1
    ELSE IF Len(a.prerelease) = 0 /\ Len(b.prerelease) > 0 THEN 1
    ELSE IF Len(a.prerelease) = 0 /\ Len(b.prerelease) = 0 THEN 0
    ELSE ComparePreFrom(a.prerelease, b.prerelease, 1)

SemverCompare(a, b) ==
    IF CompareMain(a, b) # 0 THEN CompareMain(a, b) ELSE ComparePre(a, b)

\* semver.gt(a, b) parses both operands and throws a TypeError on an invalid one
SemverGtThrows(a, b) == ~SemverValid(a) \/ ~SemverValid(b)

SemverGtNonStrict(a, b) == SemverCompare(a, b) >= 0

SemverGt(a, b) == SemverCompare(a, b) > 0

(***************************************************************************)
(* Targets and platform detection.                                         *)
(***************************************************************************)
ETarget == {"linux-x64", "linux-arm64", "windows-x64", "darwin-arm64", "darwin-x64"}

NoTarget == "unsupported"

\* getCurrentArchitecture(): the target of process.platform and process.arch
GetCurrentArchitecture(h) ==
    IF h.platform = "linux" /\ h.arch = "x64" THEN "linux-x64"
    ELSE IF h.platform = "linux" /\ h.arch = "arm64" THEN "linux-arm64"
    ELSE IF h.platform = "win32" /\ h.arch = "x64" THEN "windows-x64"
    ELSE IF h.platform = "darwin" /\ h.arch = "arm64" THEN "darwin-arm64"
    ELSE IF h.platform = "darwin" /\ h.arch = "x64" THEN "darwin-x64"
    ELSE NoTarget

(***************************************************************************)
(* The hosted release (TRelease) and the release-metadata document.        *)
(***************************************************************************)
AppNames == {"app-a", "app-b"}

\* the names an asset of the hosted release can have, in listing order; the
\* hosting service keeps asset names unique within one release
AllAssetNames == <<"release.json", "release-beta.json", "app-a", "app-b">>

AssetNames == { AllAssetNames[i] : i \in DOMAIN AllAssetNames }

MkAsset(n) ==
    [name |-> n, browser_download_url |-> "https://dl/" \o n,
     url |-> "https://api/" \o n]

NoAsset == [name |-> "", browser_download_url |-> "", url |-> ""]

IsListed(n, S) == n \in S

AssetLists ==
    { LET names == SelectSeq(AllAssetNames, LAMBDA n : IsListed(n, S))
      IN  [i \in 1..Len(names) |-> MkAsset(names[i])] : S \in SUBSET AssetNames }

\* targets a document may name: two of the enumeration and one outside it
DocTargets == {"linux-x64", "darwin-arm64", "solaris-x64"}

Checksums == <<"sum-1", "sum-2", "sum-3", "sum-4">>

NoArtifact == [name |-> "", target |-> NoTarget, checksum |-> ""]

ArtifactListsOver(targets) ==
    UNION { { [i \in 1..n |-> [name |-> f[i][1], target |-> f[i][2],
                              checksum |-> Checksums[i]]] :
                f \in [1..n -> AppNames \X targets] } : n \in 0..MaxArtifacts }

\* the JSON documents a release-metadata asset can hold
GoodDocs ==
    [version : VersionStrings, releaseDate : {"2025-12-23T12:00:00Z"},
     artifacts : ArtifactListsOver(DocTargets \cap ETarget)]

MissingField == "undefined"

BadDocs ==
    { [version |-> CHOOSE v \in SemVers : v.major = 1 /\ v.prerelease = <<>>,
       releaseDate |-> MissingField, artifacts |-> <<>>],
      [version |-> CHOOSE v \in SemVers : v.major = 1 /\ v.prerelease = <<>>,
       releaseDate |-> "2025-12-23T12:00:00Z",
       artifacts |-> << [name |-> "app-a", target |-> "solaris-x64",
                         checksum |-> Checksums[1]] >>] }

Docs == GoodDocs \cup BadDocs

NoDoc == [version |-> InvalidVersion, releaseDate |-> MissingField, artifacts |-> <<>>]

\* zRelease.parse: every field present and typed, every target in the enumeration
ZReleaseAccepts(doc) ==
    /\ doc.releaseDate # MissingField
    /\ \A i \in DOMAIN doc.artifacts : doc.artifacts[i].target \in ETarget

(***************************************************************************)
(* What the network answers to one resolution: the "latest release"        *)
(* response, and the response to the download of the metadata asset.       *)
(***************************************************************************)
Worlds ==
    { [releaseOk |-> FALSE, assets |-> <<>>, assetOk |-> FALSE, doc |-> NoDoc] }
    \cup [releaseOk : {TRUE}, assets : AssetLists, assetOk : {FALSE}, doc : {NoDoc}]
    \cup [releaseOk : {TRUE}, assets : AssetLists, assetOk : {TRUE}, doc : Docs]

\* Array.prototype.find / some over the assets: the index of the first asset
\* named n, 0 for none
RECURSIVE AssetIndexFrom(_, _, _)
AssetIndexFrom(assets, n, i) ==
    IF i > Len(assets) THEN 0
    ELSE IF assets[i].name = n THEN i
    ELSE AssetIndexFrom(assets, n, i + 1)

AssetIndex(assets, n) == AssetIndexFrom(assets, n, 1)

\* Array.prototype.find over the artifacts: the index of the first artifact
\* whose target is arch, 0 for none
RECURSIVE ArtifactIndexFrom(_, _, _)
ArtifactIndexFrom(artifacts, arch, i) ==
    IF i > Len(artifacts) THEN 0
    ELSE IF artifacts[i].target = arch THEN i
    ELSE ArtifactIndexFrom(artifacts, arch, i + 1)

ArtifactIndex(artifacts, arch) == ArtifactIndexFrom(artifacts, arch, 1)

\* a metadata file name that is the same on every channel
ReleaseFileNameDefault(ch) == "release.json"

\* this.channel ? `release-${this.channel}.json` : 'release.json'
ReleaseFileName(ch) ==
    IF ch # "" THEN "release-" \o ch \o ".json" ELSE "release.json"

NoRelease == [assets |-> <<>>]

\* BunUpdater.getLatestRelease against the answers w, for channel ch
GetLatestRelease(w, ch) ==
    LET release == [assets |-> w.assets]
        idx == AssetIndex(w.assets, ReleaseFileName(ch))
    IN  IF ~w.releaseOk
        THEN [ok |-> FALSE, error |-> "Error fetching releases",
              release |-> NoRelease, updaterMetadata |-> NoDoc]
        ELSE IF idx = 0
        THEN [ok |-> FALSE, error |-> "artifact not found in the latest release",
              release |-> release, updaterMetadata |-> NoDoc]
        ELSE IF ~w.assetOk
        THEN [ok |-> FALSE, error |-> "Error fetching release.json",
              release |-> release, updaterMetadata |-> NoDoc]
        ELSE IF ~ZReleaseAccepts(w.doc)
        THEN [ok |-> FALSE, error |-> "ZodError",
              release |-> release, updaterMetadata |-> NoDoc]
        ELSE [ok |-> TRUE, error |-> "",
              release |-> release, updaterMetadata |-> w.doc]

(***************************************************************************)
(* The eligibility decision shared by hasUpdates and checkForUpdates.      *)
(***************************************************************************)
\* a lookup that takes the last artifact for the target
FindArtifactLast(meta, arch) ==
    LET S == { i \in DOMAIN meta.artifacts : meta.artifacts[i].target = arch }
    IN  IF S = {} THEN NoArtifact
        ELSE meta.artifacts[CHOOSE i \in S : \A j \in S : j <= i]

\* updaterMetadata.artifacts.find(artifact => artifact.target === currentArch)
FindArtifact(meta, arch) ==
    LET i == ArtifactIndex(meta.artifacts, arch)
    IN  IF i = 0 THEN NoArtifact ELSE meta.artifacts[i]

\* an architecture test that every release passes
HasCorrectArchAlways(release, artifact) == TRUE

\* release.assets.some(asset => asset.name === artifact?.name)
HasCorrectArch(release, artifact) ==
    /\ artifact # NoArtifact
    /\ \E i \in DOMAIN release.assets : release.assets[i].name = artifact.name

\* release.assets.find(asset => asset.name === targetArtifact?.name)
FindAsset(release, artifact) ==
    LET i == AssetIndex(release.assets, artifact.name)
    IN  IF i = 0 THEN NoAsset ELSE release.assets[i]

\* hasUpdates() once getLatestRelease() has answered r: "throw", "true" or "false"
HasUpdatesOutcome(r, h, cur) ==
    LET arch == GetCurrentArchitecture(h)
        artifact == FindArtifact(r.updaterMetadata, arch)
    IN  IF ~r.ok THEN "throw"
        ELSE IF arch = NoTarget THEN "throw"
        ELSE IF SemverGtThrows(r.updaterMetadata.version, cur) THEN "throw"
        ELSE IF HasCorrectArch(r.release, artifact)
                /\ SemverGt(r.updaterMetadata.version, cur)
        THEN "true" ELSE "false"

(***************************************************************************)
(* The command line handed to the Executor, and the Executor's reading of  *)
(* it (ValidateInputs: parseArgs, the zod schema, the two guards).         *)
(***************************************************************************)
\* process.pid of the host application
HostPid == 4242

\* process.execPath of the host, as its path components: a standalone
\* executable, or the bun launcher under ~/.bun/bin/ ("bun run")
StandalonePath == <<"opt", "myapp", "myapp">>

LauncherPath == <<"home", "u", ".bun", "bin", "bun">>

ExecPaths == {StandalonePath, LauncherPath}

\* `--KEY=value`
KeyValue(k, v) == [key |-> k, hasValue |-> TRUE, value |-> v]

\* `--KEY`
Flag(k) == [key |-> k, hasValue |-> FALSE, value |-> ""]

\* process.pid.toString()
PidToString(pid) == ToString(pid)

ArgKeys(argv) == { argv[i].key : i \in DOMAIN argv }

\* the options of the Executor's parseArgs call, with their types
ExecutorOptions ==
    [PUBLIC_URL |-> "string", PRIVATE_URL |-> "string", SHA256_CHECKSUM |-> "string",
     GITHUB_TOKEN |-> "string", CURRENT_BINARY_PATH |-> "string",
     CURRENT_PID |-> "string", IGNORE_CHECKSUM |-> "boolean"]

\* parseArgs with strict: true throws on an option it does not know, on a
\* string option without a value and on a boolean option with one
ParseArgsAccepts(argv, options) ==
    \A i \in DOMAIN argv :
        /\ argv[i].key \in DOMAIN options
        /\ (options[argv[i].key] = "string") = argv[i].hasValue

\* values[k]: the value of the last occurrence of option k
LastOccurrence(argv, k) ==
    CHOOSE i \in DOMAIN argv :
        argv[i].key = k /\ \A j \in DOMAIN argv : argv[j].key = k => j <= i

Given(argv, k) == k \in ArgKeys(argv)

ValueOf(argv, k) == argv[LastOccurrence(argv, k)].value

\* z.url(): the strings that parse as a URL
IsUrl(v) == v \in { MkAsset(n).url : n \in AssetNames }
                   \cup { MkAsset(n).browser_download_url : n \in AssetNames }

\* the zod object schema over the parsed values
SchemaAccepts(argv) ==
    /\ Given(argv, "PUBLIC_URL") => IsUrl(ValueOf(argv, "PUBLIC_URL"))
    /\ Given(argv, "PRIVATE_URL") => IsUrl(ValueOf(argv, "PRIVATE_URL"))
    /\ Given(argv, "CURRENT_BINARY_PATH")
    /\ Given(argv, "CURRENT_PID")
    /\ Given(argv, "SHA256_CHECKSUM")

\* CURRENT_BINARY_PATH.includes('.bun/bin/')
IsBunLauncher(path) ==
    \E i \in 1..(Len(path) - 2) : path[i] = ".bun" /\ path[i + 1] = "bin"

\* the checks of the command line without the one on '.bun/bin/'
ValidateInputsAnyPath(argv) ==
    IF ~ParseArgsAccepts(argv, ExecutorOptions) THEN "ERR_PARSE_ARGS"
    ELSE IF ~SchemaAccepts(argv) THEN "ZodError"
    ELSE IF ~Given(argv, "PUBLIC_URL") /\ ~Given(argv, "PRIVATE_URL")
    THEN "Either PUBLIC_URL or PRIVATE_URL must be provided."
    ELSE "ok"

\* ValidateInputs: "ok", or the error the Executor aborts with
ValidateInputs(argv) ==
    IF ~ParseArgsAccepts(argv, ExecutorOptions) THEN "ERR_PARSE_ARGS"
    ELSE IF ~SchemaAccepts(argv) THEN "ZodError"
    ELSE IF ~Given(argv, "PUBLIC_URL") /\ ~Given(argv, "PRIVATE_URL")
    THEN "Either PUBLIC_URL or PRIVATE_URL must be provided."
    ELSE IF IsBunLauncher(ValueOf(argv, "CURRENT_BINARY_PATH"))
    THEN "Updater can only run on standalone Bun applications"
    ELSE "ok"

(***************************************************************************)
(* State.                                                                  *)
(***************************************************************************)
VARIABLES
    \* the BunUpdater instance
    currentVersion, channel, autoStart, ignoreChecksum, isUpdating,
    \* the host process: platform, arch, execPath, GITHUB_TOKEN, and whether
    \* it is still running
    env, host,
    \* the checkForUpdates() invocations, by id
    calls,
    \* the Executor processes spawned so far
    executors,
    \* whether the staged Executor binary exists in the temporary directory
    updaterStaged,
    \* the last hasUpdates() invocation: what it fetched and what it answered
    hu,
    \* one Executor run: its command line, the step it is at, whether it is
    \* running or has exited and with which status, and the loop counter i
    xargv, xpc, xstatus, xexit, xi,
    \* the process CURRENT_PID names, and whether the Executor may signal it
    parent, canSignal,
    \* the files, by path, and the paths whose file has its execute bits set
    fs, executable,
    \* what the run did: SIGTERMs sent, the download request, the payload
    \* received, the processes spawned
    signals, request, relaunched

resolverVars ==
    <<currentVersion, channel, autoStart, ignoreChecksum, isUpdating, env, host,
      calls, executors, updaterStaged, hu>>

executorVars ==
    <<xargv, xpc, xstatus, xexit, xi, parent, canSignal, fs, executable,
      signals, request, relaunched>>

(***************************************************************************)
(* The files of an Executor run.  A path is the list of its components.    *)
(***************************************************************************)
\* a download destination that is the path itself
NewBinaryPathInPlace(p) == p

\* path.join(path.dirname(p), path.basename(p) + '.new')
NewBinaryPath(p) == [p EXCEPT ![Len(p)] = @ \o ".new"]

\* CURRENT_BINARY_PATH + '.old'
OldBinaryPath(p) == [p EXCEPT ![Len(p)] = @ \o ".old"]

FsPaths == UNION { {p, NewBinaryPath(p), OldBinaryPath(p)} : p \in ExecPaths }

\* the file system when the Executor starts: the binaries at their paths
InitialFs == [p \in FsPaths |-> IF p \in ExecPaths THEN "original" ELSE "absent"]

NoRequest == [url |-> "", authorization |-> ""]

\* the state of the Executor-run variables while no run is being followed
ExecutorNotRun ==
    /\ xargv = <<>>
    /\ xpc = "validate"
    /\ xstatus = "exited"
    /\ xexit = 0
    /\ xi = 0
    /\ parent = "alive"
    /\ canSignal = TRUE
    /\ fs = InitialFs
    /\ executable = ExecPaths
    /\ signals = 0
    /\ request = NoRequest
    /\ relaunched = FALSE

CallIds == 1..NumCalls

\* TOverrides.autoStart: undefined, true or false
Overrides == {"undefined", "true", "false"}

IdleCall ==
    [pc |-> "idle", override |-> "undefined", error |-> "",
     release |-> NoRelease, updaterMetadata |-> NoDoc,
     targetArtifact |-> NoArtifact, targetAsset |-> NoAsset,
     effects |-> {}]

NoHasUpdates ==
    [called |-> FALSE, outcome |-> "", release |-> NoRelease,
     updaterMetadata |-> NoDoc, fetched |-> FALSE, error |-> "",
     world |-> [releaseOk |-> FALSE, assets |-> <<>>, assetOk |-> FALSE,
                doc |-> NoDoc]]

Envs ==
    [platform : {"linux"}, arch : {"x64", "ia32"}, execPath : ExecPaths,
     GITHUB_TOKEN : {"", "ghp_token"}]

\* new BunUpdater(options): the constructor throws on an invalid currentVersion,
\* so an instance always holds a valid one
Constructed ==
    /\ currentVersion \in { v \in VersionStrings : SemverValid(v) }
    /\ channel \in {"", "beta"}
    /\ autoStart \in BOOLEAN
    /\ ignoreChecksum \in BOOLEAN
    /\ isUpdating = FALSE

(***************************************************************************)
(* hasUpdates().                                                           *)
(***************************************************************************)
InitHasUpdates ==
    /\ Constructed
    /\ autoStart = FALSE
    /\ ignoreChecksum = FALSE
    /\ env \in { e \in Envs : e.execPath = StandalonePath /\ e.GITHUB_TOKEN = "" }
    /\ host = "running"
    /\ calls = [c \in CallIds |-> IdleCall]
    /\ executors = <<>>
    /\ updaterStaged = FALSE
    /\ hu = NoHasUpdates
    /\ ExecutorNotRun

\* one hasUpdates() invocation, from the call to the settled promise
HasUpdates ==
    /\ host = "running"
    /\ ~hu.called
    /\ \E w \in Worlds :
         LET r == GetLatestRelease(w, channel)
         IN  hu' = [called |-> TRUE,
                    outcome |-> HasUpdatesOutcome(r, env, currentVersion),
                    release |-> r.release,
                    updaterMetadata |-> r.updaterMetadata,
                    fetched |-> r.ok,
                    error |-> r.error,
                    world |-> w]
    /\ UNCHANGED <<currentVersion, channel, autoStart, ignoreChecksum, isUpdating,
                   env, host, calls, executors, updaterStaged>>
    /\ UNCHANGED executorVars

(***************************************************************************)
(* checkForUpdates(options?).  One action per stretch of the function      *)
(* between two suspension points.                                          *)
(***************************************************************************)
InFlightPcs == {"fetching", "acquiring", "awaitExit"}

InFlight(c) == calls[c].pc \in InFlightPcs

\* the catch block without the reset of the guard
CaughtKeepingGuard(c, err) ==
    /\ isUpdating' = isUpdating
    /\ calls' = [calls EXCEPT ![c] = [IdleCall EXCEPT !.pc = "threw", !.error = err,
                                                     !.effects = calls[c].effects]]

\* the catch block: clear the guard, rethrow
Caught(c, err) ==
    /\ isUpdating' = FALSE
    /\ calls' = [calls EXCEPT ![c] = [IdleCall EXCEPT !.pc = "threw", !.error = err,
                                                     !.effects = calls[c].effects]]

\* a guard test that never finds an update in progress
GuardIgnored == FALSE

\* the reentrancy guard, as the `if (this.isUpdating)` test reads it
GuardSet == isUpdating

\* the call of checkForUpdates: the guard, and the start of getLatestRelease()
Enter(c) ==
    /\ host = "running"
    /\ calls[c].pc = "idle"
    /\ \A d \in CallIds : d < c => calls[d].pc # "idle"
    /\ IF GuardSet
       THEN /\ calls' = [calls EXCEPT ![c].pc = "skipped"]
            /\ UNCHANGED isUpdating
       ELSE /\ isUpdating' = TRUE
            /\ calls' = [calls EXCEPT ![c].pc = "fetching",
                                      ![c].effects = @ \cup {"fetch"}]
    /\ UNCHANGED <<currentVersion, channel, autoStart, ignoreChecksum, env, host,
                   executors, updaterStaged, hu>>
    /\ UNCHANGED executorVars

\* an eligibility test that lets every release through
IneligibleIgnored(release, artifact, version, cur) == FALSE

\* !hasCorrectArch || !hasNewerVersion
Ineligible(release, artifact, version, cur) ==
    ~HasCorrectArch(release, artifact) \/ ~SemverGt(version, cur)

\* what getLatestRelease() can settle with for channel ch, over the answers
\* whose document carries a release version (no prerelease) or an invalid one
LatestReleases ==
    [ch \in {"", "beta"} |->
        { GetLatestRelease(w, ch) :
            w \in { x \in Worlds : x.doc.version.prerelease = <<>> } }]

\* getLatestRelease() settles with r; the eligibility test; the lookups of the
\* target artifact and asset; the start of downloadUpdater()
Resolve(c, r) ==
    LET arch == GetCurrentArchitecture(env)
        meta == r.updaterMetadata
        artifact == FindArtifact(meta, arch)
        targetArtifact == FindArtifact(meta, arch)
        targetAsset == FindAsset(r.release, targetArtifact)
    IN  /\ host = "running"
        /\ calls[c].pc = "fetching"
        /\ IF ~r.ok THEN Caught(c, r.error)
           ELSE IF arch = NoTarget
           THEN Caught(c, "Unsupported platform or architecture")
           ELSE IF SemverGtThrows(meta.version, currentVersion)
           THEN Caught(c, "Invalid Version")
           ELSE IF Ineligible(r.release, artifact, meta.version, currentVersion)
           THEN /\ calls' = [calls EXCEPT ![c].pc = "noUpdate"]
                /\ UNCHANGED isUpdating
           ELSE IF targetArtifact = NoArtifact
           THEN Caught(c, "No suitable artifact found")
           ELSE IF targetAsset = NoAsset
           THEN Caught(c, "No asset found in the release matching the target artifact.")
           ELSE /\ calls' = [calls EXCEPT ![c].pc = "acquiring",
                                          ![c].release = r.release,
                                          ![c].updaterMetadata = meta,
                                          ![c].targetArtifact = targetArtifact,
                                          ![c].targetAsset = targetAsset,
                                          ![c].effects = @ \cup {"downloadUpdater"}]
                /\ UNCHANGED isUpdating
        /\ UNCHANGED <<currentVersion, channel, autoStart, ignoreChecksum, env, host,
                       executors, updaterStaged, hu>>
        /\ UNCHANGED executorVars

\* how downloadUpdater() can end
AcquisitionOutcomes ==
    {"ok", "UPDATER_LIB_VERSION is not defined.", "Error fetching updater releases",
     "No updater asset found for architecture"}

\* an auto-start value that is the constructor's option whatever the override
AutoStartValueNoOverride(o, a) == a

\* typeof options?.autoStart === 'undefined' ? this.autoStart : options.autoStart
AutoStartValue(o, a) == IF o = "undefined" THEN a ELSE o = "true"

\* the argument list with the two URLs of the asset exchanged
BuildArgsUrlsSwapped(e, targetAsset, targetArtifact, ignore, autoStartValue) ==
    << KeyValue("CURRENT_BINARY_PATH", e.execPath),
       KeyValue("PUBLIC_URL", targetAsset.url),
       KeyValue("PRIVATE_URL", targetAsset.browser_download_url),
       KeyValue("GITHUB_TOKEN", e.GITHUB_TOKEN),
       KeyValue("CURRENT_PID", PidToString(HostPid)),
       KeyValue("SHA256_CHECKSUM", targetArtifact.checksum) >>
    \o (IF ignore THEN <<Flag("IGNORE_CHECKSUM")>> ELSE <<>>)
    \o (IF autoStartValue THEN <<Flag("AUTO_START")>> ELSE <<>>)

\* the argument list checkForUpdates builds
BuildArgs(e, targetAsset, targetArtifact, ignore, autoStartValue) ==
    << KeyValue("CURRENT_BINARY_PATH", e.execPath),
       KeyValue("PUBLIC_URL", targetAsset.browser_download_url),
       KeyValue("PRIVATE_URL", targetAsset.url),
       KeyValue("GITHUB_TOKEN", e.GITHUB_TOKEN),
       KeyValue("CURRENT_PID", PidToString(HostPid)),
       KeyValue("SHA256_CHECKSUM", targetArtifact.checksum) >>
    \o (IF ignore THEN <<Flag("IGNORE_CHECKSUM")>> ELSE <<>>)
    \o (IF autoStartValue THEN <<Flag("AUTO_START")>> ELSE <<>>)

\* downloadUpdater() settles; the argument list; Bun.spawn and unref.  The
\* options argument o of the call is read here for the first time, so it is
\* drawn here.  release and updaterMetadata are not read after the two
\* lookups: the call's record drops them once the Executor is spawned.
Acquire(c, o, outcome, spawnOk) ==
    LET argv == BuildArgs(env, calls[c].targetAsset, calls[c].targetArtifact,
                          ignoreChecksum, AutoStartValue(o, autoStart))
    IN  /\ host = "running"
        /\ calls[c].pc = "acquiring"
        /\ IF outcome # "ok"
           THEN /\ Caught(c, outcome)
                /\ UNCHANGED <<executors, updaterStaged>>
           ELSE /\ updaterStaged' = TRUE
                /\ IF ~spawnOk
                   THEN /\ isUpdating' = FALSE
                        /\ calls' = [calls EXCEPT ![c] =
                              [IdleCall EXCEPT !.pc = "threw", !.error = "spawn failed",
                                 !.effects = calls[c].effects \cup {"writeFile"}]]
                        /\ UNCHANGED executors
                   ELSE /\ executors' = Append(executors,
                              [by |-> c, argv |-> argv, state |-> "started",
                               exitCode |-> -1])
                        /\ calls' = [calls EXCEPT ![c].pc = "awaitExit",
                                                  ![c].override = o,
                                                  ![c].release = NoRelease,
                                                  ![c].updaterMetadata = NoDoc,
                                                  ![c].effects = @ \cup {"writeFile", "spawn"}]
                        /\ UNCHANGED isUpdating
        /\ UNCHANGED <<currentVersion, channel, autoStart, ignoreChecksum, env, host, hu>>
        /\ UNCHANGED executorVars

ExecutorsOf(c) == { i \in DOMAIN executors : executors[i].by = c }

\* `await updaterProcess.exited` without the wait
ExitedNotAwaited(c) == TRUE

\* a wait that settles only on a zero exit status
ExitedSettledOnSuccess(c) ==
    \A i \in ExecutorsOf(c) :
        executors[i].state = "exited" /\ executors[i].exitCode = 0

\* `await updaterProcess.exited`: settled once the spawned process has exited
ExitedSettled(c) == \A i \in ExecutorsOf(c) : executors[i].state = "exited"

\* the function returns after `await updaterProcess.exited`
Return(c) ==
    /\ host = "running"
    /\ calls[c].pc = "awaitExit"
    /\ ExitedSettled(c)
    /\ calls' = [calls EXCEPT ![c].pc = "returned"]
    /\ UNCHANGED <<currentVersion, channel, autoStart, ignoreChecksum, isUpdating,
                   env, host, executors, updaterStaged, hu>>
    /\ UNCHANGED executorVars

(***************************************************************************)
(* The spawned Executor, as the host sees it: it reads its command line,   *)
(* signals the host, and exits.                                            *)
(***************************************************************************)
\* the top of updater.ts: a rejected command line ends the process at once
ExecutorValidate(i) ==
    /\ executors[i].state = "started"
    /\ executors' = [executors EXCEPT
                       ![i].state = IF ValidateInputs(executors[i].argv) = "ok"
                                    THEN "running" ELSE "exited",
                       ![i].exitCode = IF ValidateInputs(executors[i].argv) = "ok"
                                       THEN -1 ELSE 1]
    /\ UNCHANGED <<currentVersion, channel, autoStart, ignoreChecksum, isUpdating,
                   env, host, calls, updaterStaged, hu>>
    /\ UNCHANGED executorVars

\* process.kill(+CURRENT_PID, 'SIGTERM') ending the host
ExecutorSignal(i) ==
    /\ executors[i].state = "running"
    /\ host = "running"
    /\ host' = "terminated"
    /\ UNCHANGED <<currentVersion, channel, autoStart, ignoreChecksum, isUpdating,
                   env, calls, executors, updaterStaged, hu>>
    /\ UNCHANGED executorVars

\* process.exit(0) at the end of the run, or an uncaught error
ExecutorExit(i, code) ==
    /\ executors[i].state = "running"
    /\ executors' = [executors EXCEPT ![i].state = "exited", ![i].exitCode = code]
    /\ UNCHANGED <<currentVersion, channel, autoStart, ignoreChecksum, isUpdating,
                   env, host, calls, updaterStaged, hu>>
    /\ UNCHANGED executorVars

Init ==
    /\ Constructed
    /\ currentVersion.patch = 1
    /\ currentVersion.prerelease = <<>>
    /\ channel = ""
    /\ env \in { e \in Envs : e.execPath = StandalonePath }
    /\ host = "running"
    /\ calls = [c \in CallIds |-> IdleCall]
    /\ executors = <<>>
    /\ updaterStaged = FALSE
    /\ hu = NoHasUpdates
    /\ ExecutorNotRun

Next ==
    \/ \E c \in CallIds : Enter(c)
    \/ \E c \in CallIds, r \in LatestReleases[channel] : Resolve(c, r)
    \/ \E c \in CallIds, o \in Overrides, outcome \in AcquisitionOutcomes,
          spawnOk \in BOOLEAN : Acquire(c, o, outcome, spawnOk)
    \/ \E c \in CallIds : Return(c)
    \/ \E i \in DOMAIN executors : ExecutorValidate(i)
    \/ \E i \in DOMAIN executors : ExecutorSignal(i)
    \/ \E i \in DOMAIN executors, code \in {0, 1} : ExecutorExit(i, code)

vars == <<resolverVars, executorVars>>

Spec == Init /\ [][Next]_vars

NextHasUpdates == HasUpdates

SpecHasUpdates == InitHasUpdates /\ [][NextHasUpdates]_vars

(***************************************************************************)
(* One Executor run (updater.ts), from its command line to its exit.       *)
(***************************************************************************)
\* the iterations of the two polling loops
MaxAttempts == 40

\* the SHA-256 digest of a downloaded payload, as calculateSHA256 prints it:
\* lower-case hexadecimal
Payloads == {"new", "corrupt"}

CalculateSHA256(content) == IF content = "new" THEN "abc1" ELSE "def2"

\* an expected checksum as release.json may spell it
ChecksumArgs == {"abc1", "ABC1", ""}

\* CURRENT_PID values: the host's pid, and one that +CURRENT_PID turns to NaN
PidArgs == {PidToString(HostPid), "abc"}

TokenArgs == {"", "ghp_token"}

\* zero or one `--KEY=value` for each value of a set
OptionalKeyValue(k, values) == {<<>>} \cup { <<KeyValue(k, v)>> : v \in values }

OptionalFlag(k) == {<<>>, <<Flag(k)>>}

\* the command lines an Executor run is followed on
CommandLines ==
    { a \o b \o c \o d \o e \o f \o g \o h :
        a \in OptionalKeyValue("CURRENT_BINARY_PATH", ExecPaths),
        b \in OptionalKeyValue("PUBLIC_URL", {MkAsset("app-a").browser_download_url}),
        c \in OptionalKeyValue("PRIVATE_URL", {MkAsset("app-a").url}),
        d \in OptionalKeyValue("GITHUB_TOKEN", TokenArgs),
        e \in { <<KeyValue("CURRENT_PID", v)>> : v \in PidArgs },
        f \in { <<KeyValue("SHA256_CHECKSUM", v)>> : v \in ChecksumArgs },
        g \in OptionalFlag("IGNORE_CHECKSUM"),
        h \in OptionalFlag("AUTO_START") }

\* +CURRENT_PID
PidIsNumber(v) == v = PidToString(HostPid)

\* an uncaught error: the process ends with a non-zero status where it stands
Abort ==
    /\ xstatus' = "exited"
    /\ xexit' = 1

\* a step that is taken whether or not the process has ended
RunningOrEnded(step) == xpc = step

\* the process is alive and about to take the step
Running(step) == xstatus = "running" /\ xpc = step

\* a loop that gives up one attempt early
BudgetSpentEarly(i) == i = MaxAttempts - 1

\* a loop that gives up one attempt late
BudgetSpentLate(i) == i = MaxAttempts + 1

\* the loop condition `i < 40` has become false
BudgetSpent(i) == i = MaxAttempts

CurrentBinaryPath == ValueOf(xargv, "CURRENT_BINARY_PATH")

\* parseArgs, the schema and the two checks at the top of the program
XValidate ==
    /\ Running("validate")
    /\ IF ValidateInputs(xargv) = "ok"
       THEN xpc' = "awaitParent" /\ UNCHANGED <<xstatus, xexit>>
       ELSE Abort /\ UNCHANGED xpc
    /\ UNCHANGED <<xargv, xi, parent, canSignal, fs, executable, signals, request,
                   relaunched>>
    /\ UNCHANGED resolverVars

\* one iteration of waitForTargetPidToExit: process.kill throws when the pid
\* is not a number, names no process, or may not be signalled, and the loop
\* takes any throw for the exit of the process; after the last iteration
\* the function throws
XKill ==
    /\ Running("awaitParent")
    /\ IF /\ PidIsNumber(ValueOf(xargv, "CURRENT_PID"))
          /\ parent = "alive"
          /\ canSignal
       THEN /\ signals' = signals + 1
            /\ xi' = xi + 1
            /\ IF BudgetSpent(xi + 1)
               THEN Abort /\ UNCHANGED xpc
               ELSE UNCHANGED <<xpc, xstatus, xexit>>
       ELSE /\ xpc' = "awaitUnlock"
            /\ xi' = 0
            /\ UNCHANGED <<signals, xstatus, xexit>>
    /\ UNCHANGED <<xargv, parent, canSignal, fs, executable, request, relaunched>>
    /\ UNCHANGED resolverVars

\* the process CURRENT_PID names ends
ParentExits ==
    /\ xstatus = "running"
    /\ parent = "alive"
    /\ parent' = "gone"
    /\ UNCHANGED <<xargv, xpc, xstatus, xexit, xi, canSignal, fs, executable,
                   signals, request, relaunched>>
    /\ UNCHANGED resolverVars

\* one iteration of waitForUnlock: fs.open(file, 'r+') succeeds or throws
XOpen(ok) ==
    /\ Running("awaitUnlock")
    /\ IF ok
       THEN xpc' = "download" /\ xi' = 0 /\ UNCHANGED <<xstatus, xexit>>
       ELSE /\ xi' = xi + 1
            /\ IF BudgetSpent(xi + 1)
               THEN Abort /\ UNCHANGED xpc
               ELSE UNCHANGED <<xpc, xstatus, xexit>>
    /\ UNCHANGED <<xargv, parent, canSignal, fs, executable, signals, request,
                   relaunched>>
    /\ UNCHANGED resolverVars

\* a choice of URL that prefers the public one
DownloadUrlPublicFirst(argv) ==
    IF Given(argv, "PUBLIC_URL") THEN ValueOf(argv, "PUBLIC_URL")
    ELSE ValueOf(argv, "PRIVATE_URL")

\* (PRIVATE_URL || PUBLIC_URL)!
DownloadUrl(argv) ==
    IF Given(argv, "PRIVATE_URL") THEN ValueOf(argv, "PRIVATE_URL")
    ELSE ValueOf(argv, "PUBLIC_URL")

\* the Authorization header of downloadNewBinary
AuthorizationHeader(argv) ==
    IF Given(argv, "GITHUB_TOKEN") /\ ValueOf(argv, "GITHUB_TOKEN") # ""
    THEN "Bearer " \o ValueOf(argv, "GITHUB_TOKEN") ELSE ""

DownloadOutcomes == {"ok", "not ok", "write failed"}

\* downloadNewBinary(url, newBinaryPath)
XDownload(outcome, payload) ==
    /\ Running("download")
    /\ request' = [url |-> DownloadUrl(xargv),
                   authorization |-> AuthorizationHeader(xargv)]
    /\ IF outcome = "ok"
       THEN /\ fs' = [fs EXCEPT ![NewBinaryPath(CurrentBinaryPath)] = payload]
            /\ executable' = executable \ {NewBinaryPath(CurrentBinaryPath)}
            /\ xpc' = "verify"
            /\ UNCHANGED <<xstatus, xexit>>
       ELSE Abort /\ UNCHANGED <<xpc, fs, executable>>
    /\ UNCHANGED <<xargv, xi, parent, canSignal, signals, relaunched>>
    /\ UNCHANGED resolverVars

\* a verification that is never wanted
ChecksumNeverWanted(argv) == FALSE

\* a verification wanted whatever IGNORE_CHECKSUM says
ChecksumWantedDespiteFlag(argv) == ValueOf(argv, "SHA256_CHECKSUM") # ""

\* SHA256_CHECKSUM && !IGNORE_CHECKSUM
ChecksumWanted(argv) ==
    ValueOf(argv, "SHA256_CHECKSUM") # "" /\ ~Given(argv, "IGNORE_CHECKSUM")

\* the checksum step: the digest of the downloaded file against the argument
XVerify ==
    /\ Running("verify")
    /\ IF /\ ChecksumWanted(xargv)
          /\ CalculateSHA256(fs[NewBinaryPath(CurrentBinaryPath)])
                # ValueOf(xargv, "SHA256_CHECKSUM")
       THEN Abort /\ UNCHANGED xpc
       ELSE xpc' = "chmod" /\ UNCHANGED <<xstatus, xexit>>
    /\ UNCHANGED <<xargv, xi, parent, canSignal, fs, executable, signals, request,
                   relaunched>>
    /\ UNCHANGED resolverVars

\* a rename that leaves the source in place
RenamedKeepingSource(files, from, to) == [files EXCEPT ![to] = files[from]]

\* the file system after fs.rename(from, to)
Renamed(files, from, to) == [files EXCEPT ![to] = files[from], ![from] = "absent"]

\* the execute bits travel with the file
RenamedModes(modes, from, to) ==
    (modes \ {from, to}) \cup (IF from \in modes THEN {to} ELSE {})

\* fs.chmod(newBinaryPath, 0o755)
XChmod(ok) ==
    /\ Running("chmod")
    /\ IF ok
       THEN /\ executable' = executable \cup {NewBinaryPath(CurrentBinaryPath)}
            /\ xpc' = "rename1"
            /\ UNCHANGED <<xstatus, xexit>>
       ELSE Abort /\ UNCHANGED <<xpc, executable>>
    /\ UNCHANGED <<xargv, xi, parent, canSignal, fs, signals, request, relaunched>>
    /\ UNCHANGED resolverVars

\* fs.rename(CURRENT_BINARY_PATH, CURRENT_BINARY_PATH + '.old')
XRename1(ok) ==
    /\ Running("rename1")
    /\ IF ok
       THEN /\ fs' = Renamed(fs, CurrentBinaryPath, OldBinaryPath(CurrentBinaryPath))
            /\ executable' = RenamedModes(executable, CurrentBinaryPath,
                                          OldBinaryPath(CurrentBinaryPath))
            /\ xpc' = "rename2"
            /\ UNCHANGED <<xstatus, xexit>>
       ELSE Abort /\ UNCHANGED <<xpc, fs, executable>>
    /\ UNCHANGED <<xargv, xi, parent, canSignal, signals, request, relaunched>>
    /\ UNCHANGED resolverVars

\* fs.rename(newBinaryPath, CURRENT_BINARY_PATH)
XRename2(ok) ==
    /\ Running("rename2")
    /\ IF ok
       THEN /\ fs' = Renamed(fs, NewBinaryPath(CurrentBinaryPath), CurrentBinaryPath)
            /\ executable' = RenamedModes(executable, NewBinaryPath(CurrentBinaryPath),
                                          CurrentBinaryPath)
            /\ xpc' = "relaunch"
            /\ UNCHANGED <<xstatus, xexit>>
       ELSE Abort /\ UNCHANGED <<xpc, fs, executable>>
    /\ UNCHANGED <<xargv, xi, parent, canSignal, signals, request, relaunched>>
    /\ UNCHANGED resolverVars

\* Bun.spawn([CURRENT_BINARY_PATH], {detached: true, ...}) and child.unref()
XRelaunch(ok) ==
    /\ Running("relaunch")
    /\ IF ok
       THEN relaunched' = TRUE /\ xpc' = "exit" /\ UNCHANGED <<xstatus, xexit>>
       ELSE Abort /\ UNCHANGED <<xpc, relaunched>>
    /\ UNCHANGED <<xargv, xi, parent, canSignal, fs, executable, signals, request>>
    /\ UNCHANGED resolverVars

\* process.exit(0)
XExit ==
    /\ Running("exit")
    /\ xpc' = "done"
    /\ xstatus' = "exited"
    /\ xexit' = 0
    /\ UNCHANGED <<xargv, xi, parent, canSignal, fs, executable, signals, request,
                   relaunched>>
    /\ UNCHANGED resolverVars

\* an Executor process has just been started on some command line
InitExec ==
    /\ Constructed
    /\ currentVersion = [valid |-> TRUE, major |-> 0, minor |-> 0, patch |-> 0,
                         prerelease |-> <<>>]
    /\ channel = ""
    /\ autoStart = FALSE
    /\ ignoreChecksum = FALSE
    /\ env = [platform |-> "linux", arch |-> "x64", execPath |-> StandalonePath,
              GITHUB_TOKEN |-> ""]
    /\ host = "running"
    /\ calls = [c \in CallIds |-> IdleCall]
    /\ executors = <<>>
    /\ updaterStaged = FALSE
    /\ hu = NoHasUpdates
    /\ xargv \in CommandLines
    /\ xpc = "validate"
    /\ xstatus = "running"
    /\ xexit = 0
    /\ xi = 0
    /\ parent \in {"alive", "gone"}
    /\ canSignal \in BOOLEAN
    /\ fs = InitialFs
    /\ executable = ExecPaths
    /\ signals = 0
    /\ request = NoRequest
    /\ relaunched = FALSE

NextExec ==
    \/ XValidate
    \/ XKill
    \/ ParentExits
    \/ \E ok \in BOOLEAN : XOpen(ok)
    \/ \E outcome \in DownloadOutcomes, payload \in Payloads : XDownload(outcome, payload)
    \/ XVerify
    \/ \E ok \in BOOLEAN : XChmod(ok)
    \/ \E ok \in BOOLEAN : XRename1(ok)
    \/ \E ok \in BOOLEAN : XRename2(ok)
    \/ \E ok \in BOOLEAN : XRelaunch(ok)
    \/ XExit

ExecSpec == InitExec /\ [][NextExec]_vars

\* the run under the scheduling of a started process: while the process has
\* a step to take it takes one (every await of the program settles, and its
\* two loops are bounded)
ExecLiveSpec == InitExec /\ [][NextExec]_vars /\ WF_vars(NextExec)

(***************************************************************************)
(* Properties of the Resolver.                                             *)
(***************************************************************************)
\* semver precedence (semver.org, item 11), stated without the comparison
\* routines above: p precedes q as prerelease lists
PrePrecedes(p, q) ==
    \/ p # <<>> /\ q = <<>>
    \/ /\ p # <<>>
       /\ q # <<>>
       /\ \E k \in 1..(Len(p) + 1) :
            /\ k <= Len(q)
            /\ \A j \in 1..(k - 1) : p[j] = q[j]
            /\ (k = Len(p) + 1 \/ p[k] < q[k])

\* version a has lower precedence than version b
Precedes(a, b) ==
    /\ a.valid
    /\ b.valid
    /\ \/ a.major < b.major
       \/ a.major = b.major /\ a.minor < b.minor
       \/ a.major = b.major /\ a.minor = b.minor /\ a.patch < b.patch
       \/ /\ a.major = b.major
          /\ a.minor = b.minor
          /\ a.patch = b.patch
          /\ PrePrecedes(a.prerelease, b.prerelease)

HostTarget == GetCurrentArchitecture(env)

AssetNamed(release, n) == \E j \in DOMAIN release.assets : release.assets[j].name = n

\* some artifact for the host target has an asset of its name
SomeArtifactHasAsset(meta, release) ==
    \E i \in DOMAIN meta.artifacts :
        /\ meta.artifacts[i].target = HostTarget
        /\ AssetNamed(release, meta.artifacts[i].name)

\* the first artifact for the host target has an asset of its name
FirstArtifactHasAsset(meta, release) ==
    \E i \in DOMAIN meta.artifacts :
        /\ meta.artifacts[i].target = HostTarget
        /\ \A k \in 1..(i - 1) : meta.artifacts[k].target # HostTarget
        /\ AssetNamed(release, meta.artifacts[i].name)

\* C1 as stated: for the freshly fetched release, hasUpdates() returns true
\* iff SOME artifact for the host target has a same-named asset and the
\* metadata version is strictly greater than the current version.
C1_Original ==
    (hu.called /\ hu.fetched) =>
        ((hu.outcome = "true") <=>
            (/\ SomeArtifactHasAsset(hu.updaterMetadata, hu.release)
             /\ Precedes(currentVersion, hu.updaterMetadata.version)))

\* C1 amended: hasUpdates() returns true iff the FIRST metadata artifact whose
\* target is the host target has a same-named hosted asset and the metadata
\* version is strictly greater than the current version in semver order; when
\* it returns at all it returns false for a current version equal to or
\* greater than the metadata version, whatever the artifacts, and false for a
\* newer version whose first host-target artifact has no same-named asset.
C1_HasUpdatesIff ==
    (hu.called /\ hu.fetched) =>
        /\ (hu.outcome = "true") <=>
              (/\ FirstArtifactHasAsset(hu.updaterMetadata, hu.release)
               /\ Precedes(currentVersion, hu.updaterMetadata.version))
        /\ (hu.outcome # "throw"
            /\ ~Precedes(currentVersion, hu.updaterMetadata.version))
              => hu.outcome = "false"
        /\ (hu.outcome # "throw"
            /\ ~FirstArtifactHasAsset(hu.updaterMetadata, hu.release))
              => hu.outcome = "false"
        /\ (hu.outcome = "throw") <=>
              (HostTarget = NoTarget \/ ~hu.updaterMetadata.version.valid)

\* hasUpdates() answered true on a document with two artifacts for the host
\* target that have different names
C1_Witness ==
    /\ hu.called
    /\ hu.outcome = "true"
    /\ Len(hu.updaterMetadata.artifacts) = 2
    /\ hu.updaterMetadata.artifacts[1].target = HostTarget
    /\ hu.updaterMetadata.artifacts[2].target = HostTarget
    /\ hu.updaterMetadata.artifacts[1].name # hu.updaterMetadata.artifacts[2].name
    /\ currentVersion.prerelease # <<>>

\* C2: at most one checkForUpdates() call is past the reentrancy guard at a
\* time; a call made while another one is in flight has returned at once
\* without fetching, throwing or spawning; and while a call waits on its
\* spawned Executor no other Executor has been spawned.
C2_OneInFlight ==
    /\ \A c, d \in CallIds : (InFlight(c) /\ InFlight(d)) => c = d
    /\ \A c, d \in CallIds :
          (InFlight(c) /\ c < d /\ calls[d].pc # "idle") => calls[d].pc = "skipped"
    /\ \A d \in CallIds :
          calls[d].pc = "skipped" =>
              /\ calls[d].effects = {}
              /\ calls[d].error = ""
              /\ ExecutorsOf(d) = {}
    /\ \A c \in CallIds :
          calls[c].pc = "awaitExit" =>
              /\ Cardinality(ExecutorsOf(c)) = 1
              /\ Len(executors) = 1

\* a second call was made while the first waits on its spawned Executor
C2_Witness ==
    \E c, d \in CallIds :
        /\ c # d
        /\ calls[c].pc = "awaitExit"
        /\ \E i \in ExecutorsOf(c) : executors[i].state # "exited"
        /\ calls[d].pc = "skipped"

\* C3 as stated: whenever no checkForUpdates() call is in flight on the
\* instance, the guard isUpdating is clear.
C3_GuardClearWhenIdle ==
    (\A c \in CallIds : ~InFlight(c)) => ~isUpdating

\* C4: a call that failed after setting the guard has cleared the guard when
\* it rethrows the error, and the next call on the instance is not skipped as
\* already in progress.
C4_GuardClearedOnError ==
    [][/\ \A c \in CallIds :
            (calls[c].pc # "threw" /\ calls'[c].pc = "threw") =>
                /\ InFlight(c)
                /\ isUpdating
                /\ ~isUpdating'
                /\ calls'[c].error # ""
       /\ \A d \in CallIds :
            (/\ d > 1
             /\ calls[d].pc = "idle"
             /\ calls'[d].pc # "idle"
             /\ calls[d - 1].pc = "threw") => calls'[d].pc = "fetching"]_vars

\* the first call failed at the spawn and the second call is past the guard
C4_Witness ==
    /\ calls[1].pc = "threw"
    /\ calls[1].error = "spawn failed"
    /\ InFlight(2)

\* C5: a call that found no eligible update returned normally having only
\* fetched: it did not start the download of the Executor, wrote no file and
\* spawned nothing; only an eligible release lets a call go on to the download.
C5_IneligibleNoEffects ==
    \A c \in CallIds :
        /\ calls[c].pc = "noUpdate" =>
              /\ calls[c].effects = {"fetch"}
              /\ calls[c].error = ""
              /\ ExecutorsOf(c) = {}
        /\ calls[c].pc = "acquiring" =>
              /\ FirstArtifactHasAsset(calls[c].updaterMetadata, calls[c].release)
              /\ Precedes(currentVersion, calls[c].updaterMetadata.version)
        /\ (\A d \in CallIds : calls[d].pc \in {"idle", "skipped", "noUpdate", "fetching"})
              => (~updaterStaged /\ executors = <<>>)

\* both calls were made and the first found nothing to update
C5_Witness ==
    /\ calls[1].pc = "noUpdate"
    /\ calls[2].pc # "idle"

\* C6 as stated: a call that spawned the Executor completes while the Executor
\* is still running.
C6_Original ==
    [][\A c \in CallIds :
          (calls[c].pc = "awaitExit" /\ calls'[c].pc = "returned")
              => \E i \in ExecutorsOf(c) : executors'[i].state # "exited"]_vars

\* C6 amended: after spawning and unref-ing the Executor, checkForUpdates()
\* awaits the Executor's exit: the call completes only once the Executor it
\* spawned has exited, and stays pending while that Executor runs.
C6_ReturnsOnlyAfterExit ==
    \A c \in CallIds :
        calls[c].pc = "returned" =>
            /\ ExecutorsOf(c) # {}
            /\ \A i \in ExecutorsOf(c) : executors[i].state = "exited"

\* a call returned after its Executor exited with status 0
C6_Witness ==
    \E c \in CallIds :
        /\ calls[c].pc = "returned"
        /\ \E i \in ExecutorsOf(c) : executors[i].exitCode = 0

\* the arguments of the Executor a call spawned, as C7 lists them
HandoffAsClaimed(argv, c) ==
    /\ \A k \in {"CURRENT_BINARY_PATH", "PUBLIC_URL", "PRIVATE_URL", "GITHUB_TOKEN",
                 "CURRENT_PID", "SHA256_CHECKSUM"} :
          Cardinality({ j \in DOMAIN argv : argv[j].key = k /\ argv[j].hasValue }) = 1
    /\ ValueOf(argv, "CURRENT_BINARY_PATH") = env.execPath
    /\ ValueOf(argv, "CURRENT_PID") = ToString(HostPid)
    /\ ValueOf(argv, "SHA256_CHECKSUM") = calls[c].targetArtifact.checksum
    /\ ValueOf(argv, "PUBLIC_URL") = calls[c].targetAsset.browser_download_url
    /\ ValueOf(argv, "PRIVATE_URL") = calls[c].targetAsset.url
    /\ ValueOf(argv, "GITHUB_TOKEN") = env.GITHUB_TOKEN

\* the target artifact and asset of a call are the first artifact for the
\* host target and the asset of its name, in the release the call fetched
TargetsFromSnapshot(c) ==
    /\ \E i \in DOMAIN calls[c].updaterMetadata.artifacts :
          /\ calls[c].updaterMetadata.artifacts[i] = calls[c].targetArtifact
          /\ calls[c].targetArtifact.target = HostTarget
          /\ \A k \in 1..(i - 1) :
                calls[c].updaterMetadata.artifacts[k].target # HostTarget
    /\ \E j \in DOMAIN calls[c].release.assets :
          calls[c].release.assets[j] = calls[c].targetAsset
    /\ calls[c].targetAsset.name = calls[c].targetArtifact.name

\* C7 as stated: every invocation that found an eligible update has spawned
\* exactly one Executor, with the listed arguments.
C7_Original ==
    \A c \in CallIds :
        ("downloadUpdater" \in calls[c].effects /\ calls[c].pc # "acquiring") =>
            /\ Cardinality(ExecutorsOf(c)) = 1
            /\ \A i \in ExecutorsOf(c) : HandoffAsClaimed(executors[i].argv, c)

\* C7 amended: every invocation spawns at most one Executor; one that found an
\* eligible update spawns exactly one when the acquisition of the Executor
\* and Bun.spawn succeed, and none when either fails; the arguments of the
\* spawned Executor are CURRENT_BINARY_PATH = the host's executable path,
\* CURRENT_PID = the host's pid, SHA256_CHECKSUM = the checksum of the first
\* metadata artifact for the host target, PUBLIC_URL and PRIVATE_URL = the two
\* URLs of the asset of that artifact's name, GITHUB_TOKEN = the environment
\* token or the empty string.
C7_Handoff ==
    \A c \in CallIds :
        /\ Cardinality(ExecutorsOf(c)) <= 1
        /\ (ExecutorsOf(c) # {}) <=> (calls[c].pc \in {"awaitExit", "returned"})
        /\ (ExecutorsOf(c) # {}) <=> ("spawn" \in calls[c].effects)
        /\ calls[c].pc = "threw" => ExecutorsOf(c) = {}
        /\ calls[c].pc = "acquiring" => TargetsFromSnapshot(c)
        /\ \A i \in ExecutorsOf(c) :
              /\ HandoffAsClaimed(executors[i].argv, c)
              /\ calls[c].targetArtifact.target = HostTarget
              /\ calls[c].targetAsset.name = calls[c].targetArtifact.name

\* an Executor was spawned with the environment's token for the second
\* artifact of the document
C7_Witness ==
    \E i \in DOMAIN executors :
        /\ env.GITHUB_TOKEN # ""
        /\ ValueOf(executors[i].argv, "GITHUB_TOKEN") = env.GITHUB_TOKEN
        /\ ValueOf(executors[i].argv, "SHA256_CHECKSUM") = Checksums[2]

\* C8 as stated: every argument list checkForUpdates() hands to the Executor
\* is accepted by the Executor's argument parsing.
C8_ArgsAccepted ==
    \A i \in DOMAIN executors :
        ParseArgsAccepts(executors[i].argv, ExecutorOptions)

(***************************************************************************)
(* Properties of an Executor run.                                          *)
(***************************************************************************)
\* nothing has been written, renamed, chmod-ed, requested, signalled or spawned
NothingDone ==
    /\ fs = InitialFs
    /\ executable = ExecPaths
    /\ request = NoRequest
    /\ signals = 0
    /\ ~relaunched

NoUrlGiven == ~Given(xargv, "PUBLIC_URL") /\ ~Given(xargv, "PRIVATE_URL")

LauncherPathGiven ==
    /\ Given(xargv, "CURRENT_BINARY_PATH")
    /\ IsBunLauncher(ValueOf(xargv, "CURRENT_BINARY_PATH"))

\* C9: a run whose command line has neither PUBLIC_URL nor PRIVATE_URL, or
\* whose CURRENT_BINARY_PATH contains '.bun/bin/', never leaves its first
\* step: it aborts there with a non-zero status, having written, renamed and
\* chmod-ed no file and spawned nothing.
C9_AbortBeforeMutation ==
    (NoUrlGiven \/ LauncherPathGiven) =>
        /\ xpc = "validate"
        /\ NothingDone
        /\ xstatus = "exited" => xexit = 1
        /\ xstatus = "running" => ENABLED XValidate

\* a run on the bun launcher's path, with a URL and an otherwise acceptable
\* command line, has aborted
C9_Witness ==
    /\ LauncherPathGiven
    /\ ~NoUrlGiven
    /\ ParseArgsAccepts(xargv, ExecutorOptions)
    /\ xstatus = "exited"
    /\ xexit = 1

\* the steps of a run before the first rename has been done
BeforeFirstRename ==
    {"validate", "awaitParent", "awaitUnlock", "download", "verify", "chmod", "rename1"}

\* C10: in every state of a run before the first rename has been done, and so
\* after an abort in any earlier step, every binary is still the original at
\* its path and no backup exists: the download has written only to the
\* sibling '<name>.new' path.
C10_OriginalUntilSwap ==
    xpc \in BeforeFirstRename =>
        /\ \A p \in ExecPaths : fs[p] = "original" /\ p \in executable
        /\ \A p \in ExecPaths : fs[[p EXCEPT ![Len(p)] = @ \o ".old"]] = "absent"
        /\ \A p \in DOMAIN fs :
              fs[p] \in Payloads =>
                  /\ Given(xargv, "CURRENT_BINARY_PATH")
                  /\ p = [CurrentBinaryPath EXCEPT ![Len(CurrentBinaryPath)] = @ \o ".new"]

\* a run aborted at the checksum step after a corrupt download
C10_Witness ==
    /\ xpc = "verify"
    /\ xstatus = "exited"
    /\ xexit = 1
    /\ \E p \in DOMAIN fs : fs[p] = "corrupt"

\* the expected checksum of the run, and whether verification is enabled
ExpectedChecksum == ValueOf(xargv, "SHA256_CHECKSUM")

VerificationEnabled == ExpectedChecksum # "" /\ ~Given(xargv, "IGNORE_CHECKSUM")

\* the hex digits of a checksum with their letters in lower case
LowerCase(v) == IF v = "ABC1" THEN "abc1" ELSE v

\* the '.new' sibling and the '.old' backup of CURRENT_BINARY_PATH
NewPath == [CurrentBinaryPath EXCEPT ![Len(CurrentBinaryPath)] = @ \o ".new"]

OldPath == [CurrentBinaryPath EXCEPT ![Len(CurrentBinaryPath)] = @ \o ".old"]

\* the steps after the checksum step
AfterVerify == {"chmod", "rename1", "rename2", "relaunch", "exit", "done"}

\* the downloaded file's digest differs from the expected checksum, letter
\* case aside
DigestDiffers ==
    /\ fs[NewPath] \in Payloads
    /\ CalculateSHA256(fs[NewPath]) # LowerCase(ExpectedChecksum)

\* C11: with verification enabled, a run whose downloaded file's digest
\* differs from the expected checksum does not get past the checksum step:
\* it aborts there with a non-zero status, the downloaded file still at the
\* '.new' path, the original in place, no backup and no relaunch.
C11_MismatchNeverPromoted ==
    (xpc \notin {"validate", "awaitParent", "awaitUnlock", "download"}
     /\ VerificationEnabled) =>
        /\ DigestDiffers =>
              /\ xpc = "verify"
              /\ xstatus = "exited" => xexit = 1
              /\ xstatus = "running" => ENABLED XVerify
              /\ fs[CurrentBinaryPath] = "original"
              /\ fs[OldPath] = "absent"
              /\ ~relaunched
        /\ \A p \in DOMAIN fs :
              (fs[p] \in Payloads /\ xpc \in AfterVerify)
                  => CalculateSHA256(fs[p]) = LowerCase(ExpectedChecksum)

\* a run with verification enabled aborted on a corrupt download
C11_Witness ==
    /\ xpc = "verify"
    /\ xstatus = "exited"
    /\ xexit = 1
    /\ VerificationEnabled
    /\ ExpectedChecksum = "abc1"
    /\ fs[NewPath] = "corrupt"

\* C12 as stated: the comparison is case-insensitive, so a run aborts at the
\* checksum step only when the digest differs from the expected checksum
\* letter case aside.
C12_CaseInsensitive ==
    (xpc = "verify" /\ xstatus = "exited") => DigestDiffers

\* C13: the checksum step compares exactly when IGNORE_CHECKSUM is absent and
\* the supplied checksum is not empty: a run without verification never
\* aborts at the checksum step, whatever it downloaded, and goes on to chmod
\* and the swap; a run with verification gets past the step only with the
\* digest equal to the expected checksum.
C13_SkippedExactly ==
    /\ (xpc = "verify" /\ xstatus = "exited") =>
          /\ VerificationEnabled
          /\ CalculateSHA256(fs[NewPath]) # ExpectedChecksum
    /\ (xpc = "verify" /\ xstatus = "running") => ENABLED XVerify
    /\ \A p \in DOMAIN fs :
          (fs[p] \in Payloads /\ xpc \in AfterVerify /\ VerificationEnabled)
              => CalculateSHA256(fs[p]) = ExpectedChecksum

\* a run with IGNORE_CHECKSUM and a checksum the download does not have has
\* swapped the download in
C13_Witness ==
    /\ xpc \in AfterVerify
    /\ Given(xargv, "IGNORE_CHECKSUM")
    /\ ExpectedChecksum = "abc1"
    /\ fs[CurrentBinaryPath] = "corrupt"
    /\ fs[OldPath] = "original"
    /\ NewPath \in DOMAIN fs
    /\ CurrentBinaryPath \in executable

\* C14 as stated: the Executor relaunches the new binary only when AUTO_START
\* is set; a run without it swaps the binary and spawns nothing.
C14_RelaunchOnlyWithAutoStart ==
    relaunched => Given(xargv, "AUTO_START")

\* C15: the --AUTO_START flag is among the arguments of the Executor a call
\* spawned iff the call's autoStart override is true, or is undefined with
\* the constructor's autoStart option true.
C15_EffectiveAutoStart ==
    \A i \in DOMAIN executors :
        Given(executors[i].argv, "AUTO_START") <=>
            \/ calls[executors[i].by].override = "true"
            \/ calls[executors[i].by].override = "undefined" /\ autoStart

\* an instance built with autoStart: true spawned the Executor without
\* --AUTO_START for checkForUpdates({autoStart: false})
C15_Witness ==
    \E i \in DOMAIN executors :
        /\ autoStart
        /\ calls[executors[i].by].override = "false"
        /\ ~Given(executors[i].argv, "AUTO_START")

\* a command line carrying the handoff parameters: the path of a standalone
\* binary, a pid, a checksum and at least one URL
HandoffGiven ==
    /\ Given(xargv, "CURRENT_BINARY_PATH")
    /\ ~IsBunLauncher(ValueOf(xargv, "CURRENT_BINARY_PATH"))
    /\ Given(xargv, "CURRENT_PID")
    /\ Given(xargv, "SHA256_CHECKSUM")
    /\ Given(xargv, "PUBLIC_URL") \/ Given(xargv, "PRIVATE_URL")

\* the run was ended by its surroundings: the parent or the lock outlasted
\* the attempts, the download or a file operation or the spawn failed, or
\* the digest differs from the expected checksum
StoppedBySurroundings ==
    /\ xstatus = "exited"
    /\ xexit = 1
    /\ \/ xpc \in {"awaitParent", "awaitUnlock", "download", "chmod", "rename1",
                   "rename2", "relaunch"}
       \/ xpc = "verify" /\ DigestDiffers

\* exit status 0 with the download at CURRENT_BINARY_PATH and the previous
\* binary at '<path>.old'
ExitedZeroSwapped ==
    /\ xstatus = "exited"
    /\ xexit = 0
    /\ fs[CurrentBinaryPath] \in Payloads
    /\ fs[OldPath] = "original"

\* C16 as stated: the Executor exits with status 0 only with the download
\* swapped in and the previous binary backed up, and a run on the handoff
\* parameters that its surroundings do not stop (parent gone and file
\* openable within the attempts, download successful, checksum equal or
\* bypassed) eventually exits so.
C16_EventuallyExitsZero ==
    /\ []((xstatus = "exited" /\ xexit = 0 /\ xpc # "validate") => ExitedZeroSwapped)
    /\ HandoffGiven => <>(StoppedBySurroundings \/ ExitedZeroSwapped)

\* the metadata asset a resolution on the configured channel is about
WantedAsset == IF channel = "" THEN "release.json" ELSE "release-" \o channel \o ".json"

\* the document has every field of the metadata shape and only targets among
\* the five enumerated ones
MatchesMetadataShape(doc) ==
    /\ doc.releaseDate # MissingField
    /\ \A i \in DOMAIN doc.artifacts :
          doc.artifacts[i].target \in
              {"linux-x64", "linux-arm64", "windows-x64", "darwin-arm64", "darwin-x64"}

\* C17: a resolution yields the metadata exactly when the latest-release
\* response is a success, the release lists the asset 'release-<channel>.json'
\* (or 'release.json' without a channel), its download is a success and the
\* document matches the metadata shape; it then yields that document and the
\* release's assets, and otherwise fails with an error and no metadata.
C17_ResolutionFailures ==
    hu.called =>
        /\ hu.fetched <=>
              /\ hu.world.releaseOk
              /\ \E j \in DOMAIN hu.world.assets : hu.world.assets[j].name = WantedAsset
              /\ hu.world.assetOk
              /\ MatchesMetadataShape(hu.world.doc)
        /\ hu.fetched =>
              /\ hu.error = ""
              /\ hu.updaterMetadata = hu.world.doc
              /\ hu.release.assets = hu.world.assets
        /\ ~hu.fetched =>
              /\ hu.error # ""
              /\ hu.updaterMetadata = NoDoc
              /\ hu.outcome = "throw"

\* on the beta channel, a release that lists release.json but no
\* release-beta.json failed to resolve
C17_Witness ==
    /\ hu.called
    /\ channel = "beta"
    /\ \E j \in DOMAIN hu.world.assets : hu.world.assets[j].name = "release.json"
    /\ hu.world.releaseOk
    /\ ~hu.fetched
    /\ hu.error = "artifact not found in the latest release"

\* the steps of a run, in program order
StepOrder ==
    <<"validate", "awaitParent", "awaitUnlock", "download", "verify", "chmod",
      "rename1", "rename2", "relaunch", "exit", "done">>

Position(step) == CHOOSE k \in DOMAIN StepOrder : StepOrder[k] = step

\* C18: a run goes through its steps one by one in the fixed order (parent
\* exit, file unlock, download, checksum, chmod, rename to '.old', rename of
\* '.new', relaunch, exit), each step's effect happens only at that step, a
\* failing step ends the run where it stands without an effect, and a run
\* that has ended takes no further step.
C18_FixedOrder ==
    [][/\ xpc' # xpc =>
            /\ xstatus = "running"
            /\ Position(xpc') = Position(xpc) + 1
            /\ xstatus' = "running" \/ (xpc' = "done" /\ xexit' = 0)
       /\ xstatus = "exited" => UNCHANGED executorVars
       /\ signals' # signals => (xpc = "awaitParent" /\ parent = "alive")
       /\ request' # request => xpc = "download"
       /\ relaunched' # relaunched => (xpc = "relaunch" /\ xpc' = "exit")
       /\ executable' # executable => xpc \in {"download", "chmod", "rename1", "rename2"}
       /\ fs' # fs =>
            \/ /\ xpc = "download" /\ xpc' = "verify"
               /\ \A p \in DOMAIN fs : p # NewPath => fs'[p] = fs[p]
            \/ /\ xpc = "rename1" /\ xpc' = "rename2"
               /\ NewPath \in executable
               /\ fs'[OldPath] = fs[CurrentBinaryPath]
               /\ fs'[NewPath] = fs[NewPath]
            \/ /\ xpc = "rename2" /\ xpc' = "relaunch"
               /\ fs'[CurrentBinaryPath] = fs[NewPath]
               /\ fs'[OldPath] = fs[OldPath]
       /\ (xstatus = "running" /\ xstatus' = "exited" /\ xexit' # 0) =>
            /\ xpc' = xpc
            /\ fs' = fs
            /\ executable' = executable
            /\ relaunched' = relaunched]_vars

\* a run went through every step: it signalled the parent, swapped the
\* download in, relaunched and exited
C18_Witness ==
    /\ xpc = "done"
    /\ xexit = 0
    /\ signals > 0
    /\ relaunched
    /\ fs[OldPath] = "original"

\* no request was made and no file written, renamed or chmod-ed, and nothing
\* was spawned
NothingWritten ==
    /\ fs = InitialFs
    /\ executable = ExecPaths
    /\ request = NoRequest
    /\ ~relaunched

\* C19: a run whose parent took all 40 termination signals, or whose binary
\* failed to open 40 times, has aborted there with a non-zero status without
\* a download, a write, a rename or a relaunch; the two waits abort for no
\* other reason.
C19_TimeoutsAbort ==
    /\ (xpc = "awaitParent" /\ signals = 40) => xstatus = "exited"
    /\ (xpc = "awaitUnlock" /\ xi = 40) => xstatus = "exited"
    /\ (xpc = "awaitParent" /\ xstatus = "exited") =>
          /\ xexit = 1
          /\ signals = 40
          /\ xi = 40
          /\ NothingWritten
    /\ (xpc = "awaitUnlock" /\ xstatus = "exited") =>
          /\ xexit = 1
          /\ xi = 40
          /\ NothingWritten

\* the parent outlasted the 40 signals and the run has aborted
C19_Witness ==
    /\ xpc = "awaitParent"
    /\ xstatus = "exited"
    /\ xexit = 1
    /\ signals = 40
    /\ parent = "alive"

\* C20 as stated: a run is past the wait for its parent only when the process
\* CURRENT_PID names no longer exists.
C20_AdvanceOnlyWhenGone ==
    xpc \notin {"validate", "awaitParent"} => parent = "gone"

\* the process took a step (the parent's exit is not one of its steps)
ExecutorStepped ==
    <<xpc, xstatus, xexit, xi, fs, executable, signals, request, relaunched>>'
        # <<xpc, xstatus, xexit, xi, fs, executable, signals, request, relaunched>>

\* C21: every run ends; it sends at most 40 termination signals and fails to
\* open the binary at most 40 times; outside the two waits every step the
\* process takes either moves it on to a later step or ends it, so no step
\* is taken twice.
C21_Terminates ==
    /\ [](signals <= 40 /\ xi <= 40)
    /\ [][/\ xpc' # xpc => Position(xpc') > Position(xpc)
          /\ (ExecutorStepped /\ xpc \notin {"awaitParent", "awaitUnlock"})
                => (xpc' # xpc \/ xstatus' = "exited")]_vars
    /\ <>(xstatus = "exited")

\* a run signalled its parent, saw it exit, and gave up on the lock after 40
\* failed opens
C21_Witness ==
    /\ xpc = "awaitUnlock"
    /\ xstatus = "exited"
    /\ xi = 40
    /\ signals > 0

\* C22: the previous binary is always at its path or at '<path>.old'; a
\* binary's path holds no file only for CURRENT_BINARY_PATH in the states
\* after the first rename and before the second has succeeded (an abort at
\* the second rename included), where the backup holds the previous binary
\* and the download is still at '.new'.
C22_BackupBeforeOverwrite ==
    /\ \A p \in ExecPaths :
          \/ fs[p] = "original"
          \/ fs[[p EXCEPT ![Len(p)] = @ \o ".old"]] = "original"
    /\ \A p \in ExecPaths :
          fs[p] = "absent" =>
              /\ xpc = "rename2"
              /\ p = CurrentBinaryPath
              /\ fs[OldPath] = "original"
              /\ fs[NewPath] \in Payloads
    /\ xpc = "rename2" => fs[CurrentBinaryPath] = "absent"
    /\ xpc \in {"relaunch", "exit", "done"} =>
          /\ fs[CurrentBinaryPath] \in Payloads
          /\ fs[OldPath] = "original"

\* the second rename failed: no file at the original path, the previous
\* binary in the backup
C22_Witness ==
    /\ xpc = "rename2"
    /\ xstatus = "exited"
    /\ xexit = 1
    /\ fs[CurrentBinaryPath] = "absent"
    /\ fs[OldPath] = "original"

\* C23: the download request goes to PRIVATE_URL when that is given and to
\* PUBLIC_URL otherwise; it carries `Bearer <token>` as Authorization iff a
\* non-empty GITHUB_TOKEN was given; and a run that aborted at the download
\* has written nothing to the '.new' path.
C23_DownloadRequest ==
    /\ request # NoRequest =>
          /\ Given(xargv, "PRIVATE_URL") => request.url = ValueOf(xargv, "PRIVATE_URL")
          /\ ~Given(xargv, "PRIVATE_URL") => request.url = ValueOf(xargv, "PUBLIC_URL")
          /\ request.authorization # "" <=>
                (Given(xargv, "GITHUB_TOKEN") /\ ValueOf(xargv, "GITHUB_TOKEN") # "")
          /\ request.authorization # "" =>
                request.authorization = "Bearer " \o ValueOf(xargv, "GITHUB_TOKEN")
    /\ request = NoRequest => xpc \in {"validate", "awaitParent", "awaitUnlock", "download"}
    /\ (xpc = "download" /\ xstatus = "exited") =>
          /\ xexit = 1
          /\ request # NoRequest
          /\ fs = InitialFs
    /\ (xpc = "download" /\ xstatus = "running") =>
          /\ request = NoRequest
          /\ \A outcome \in DownloadOutcomes, payload \in Payloads :
                ENABLED XDownload(outcome, payload)

\* a run given both URLs and a token asked the private URL with the bearer
\* header and aborted on the response
C23_Witness ==
    /\ xpc = "download"
    /\ xstatus = "exited"
    /\ Given(xargv, "PUBLIC_URL")
    /\ Given(xargv, "PRIVATE_URL")
    /\ request.url = ValueOf(xargv, "PRIVATE_URL")
    /\ request.authorization = "Bearer ghp_token"

\* the positions of the artifacts for the host target, and the first of them
HostArtifacts(meta) ==
    { i \in DOMAIN meta.artifacts : meta.artifacts[i].target = HostTarget }

FirstHostArtifact(meta) ==
    meta.artifacts[CHOOSE i \in HostArtifacts(meta) :
                      \A j \in HostArtifacts(meta) : i <= j]

LookupErrors ==
    {"No suitable artifact found",
     "No asset found in the release matching the target artifact."}

\* C25: no checkForUpdates() call ever fails with 'No suitable artifact
\* found' or 'No asset found in the release matching the target artifact':
\* a call past the eligibility test holds a target artifact for the host
\* target, listed in the metadata it fetched, and a hosted asset of that
\* artifact's name from the release it fetched.
C25_LookupsSucceed ==
    \A c \in CallIds :
        /\ calls[c].error \notin LookupErrors
        /\ calls[c].pc = "acquiring" =>
              /\ \E i \in DOMAIN calls[c].updaterMetadata.artifacts :
                    calls[c].updaterMetadata.artifacts[i] = calls[c].targetArtifact
              /\ \E j \in DOMAIN calls[c].release.assets :
                    calls[c].release.assets[j] = calls[c].targetAsset
        /\ calls[c].pc \in {"acquiring", "awaitExit", "returned"} =>
              /\ calls[c].targetArtifact # NoArtifact
              /\ calls[c].targetAsset # NoAsset
              /\ calls[c].targetAsset.name = calls[c].targetArtifact.name
              /\ calls[c].targetArtifact.target = HostTarget

\* a call passed the eligibility test on a document that lists an artifact
\* for another target first
C25_Witness ==
    \E c \in CallIds :
        /\ calls[c].pc = "acquiring"
        /\ Len(calls[c].updaterMetadata.artifacts) = 2
        /\ calls[c].updaterMetadata.artifacts[1].target # HostTarget
        /\ calls[c].targetArtifact = calls[c].updaterMetadata.artifacts[2]

\* C26: a call waiting on its spawned Executor can return as soon as that
\* process has exited while the host is running, whatever the exit status;
\* and the only way it leaves the wait is by returning, with no error.
C26_ExitStatusIgnored ==
    /\ [](\A c \in CallIds :
            (/\ calls[c].pc = "awaitExit"
             /\ host = "running"
             /\ \A i \in DOMAIN executors :
                   executors[i].by = c => executors[i].state = "exited")
                => ENABLED Return(c))
    /\ [][\A c \in CallIds :
            (calls[c].pc = "awaitExit" /\ calls'[c].pc # "awaitExit") =>
                /\ calls'[c].pc = "returned"
                /\ calls'[c].error = ""
                /\ isUpdating' = isUpdating]_vars

\* a call returned normally although its Executor exited with status 1
C26_Witness ==
    \E c \in CallIds :
        /\ calls[c].pc = "returned"
        /\ calls[c].error = ""
        /\ host = "running"
        /\ \E i \in DOMAIN executors :
              /\ executors[i].by = c
              /\ executors[i].state = "exited"
              /\ executors[i].exitCode = 1

\* C27 as stated: a run that aborted at the download or at the checksum
\* verification has left the original application process exited, has
\* started no new application process, and has the original binary at
\* CURRENT_BINARY_PATH.
C27_AbortAfterParentGone ==
    (xstatus = "exited" /\ xpc \in {"download", "verify"}) =>
        /\ parent = "gone"
        /\ ~relaunched
        /\ fs[CurrentBinaryPath] = "original"

\* the kinds of command line ValidateInputs rejects
ParseRejected == \E i \in DOMAIN xargv : xargv[i].key \notin DOMAIN ExecutorOptions

SchemaRejected == ~Given(xargv, "CURRENT_BINARY_PATH")

\* C28: a run still at (or aborted in) ValidateInputs has sent no termination
\* signal; a signal has been sent only by a run whose command line has no
\* unknown option, has the required values, names a URL and does not name a
\* path under '.bun/bin/'; and every rejected command line aborts the run in
\* its first step.
C28_NoSignalBeforeValidation ==
    /\ xpc = "validate" => signals = 0
    /\ signals > 0 =>
          /\ ~ParseRejected
          /\ ~SchemaRejected
          /\ ~NoUrlGiven
          /\ ~LauncherPathGiven
    /\ (ParseRejected \/ SchemaRejected \/ NoUrlGiven \/ LauncherPathGiven) =>
          /\ xpc = "validate"
          /\ xstatus = "running" => ENABLED XValidate

\* a run given an option parseArgs does not know has aborted, the process
\* CURRENT_PID names being alive and open to signals
C28_Witness ==
    /\ xpc = "validate"
    /\ xstatus = "exited"
    /\ xexit = 1
    /\ ParseRejected
    /\ ~SchemaRejected /\ ~NoUrlGiven /\ ~LauncherPathGiven
    /\ PidIsNumber(ValueOf(xargv, "CURRENT_PID"))
    /\ parent = "alive"
    /\ canSignal
    /\ signals = 0

=============================================================================
